---- MODULE Spec2Model ----
(***************************************************************************)
(* Model of the wizard component of src/frontend_reactjs/src/App.js:       *)
(* the step list built from the environment, the stored active step id,    *)
(* the completion set, and the event handlers that change them.            *)
(*                                                                         *)
(* One action is one UI event as React processes it: the handler runs with *)
(* the values of the render it was created in, the component re-renders,   *)
(* and the effect of lines 352-357 runs on the new values (a click is a    *)
(* discrete event: its render and its effects are flushed before the next  *)
(* event is handled).                                                      *)
(***************************************************************************)
EXTENDS Integers, Sequences, FiniteSets, TLC

VARIABLES env, featureFlags, experimentsEnabled, steps, activeStepId, completed,
          lastEvent, prevOp, before, probe

vars == <<env, featureFlags, experimentsEnabled, steps, activeStepId, completed,
          lastEvent, prevOp, before, probe>>

(***************************************************************************)
(* Bounds of the model.                                                    *)
(***************************************************************************)
\* how many identifiers that are ids of no step a selection may carry
NumForeignIds == 1
\* largest list length and completed count computeProgress is applied to
MaxProbe == 8

(***************************************************************************)
(* JavaScript values.                                                      *)
(***************************************************************************)
\* process.env.X of a variable that is not set
Undefined == "<undefined>"

\* JS truthiness of an environment value (undefined or a string)
Truthy(v) == v # Undefined /\ v # ""

Min(a, b) == IF a <= b THEN a ELSE b
Max(a, b) == IF a >= b THEN a ELSE b

\* a JS number: a finite integer, NaN or Infinity
Num(n) == [kind |-> "number", value |-> n]
NaN == [kind |-> "NaN", value |-> 0]
Infinity == [kind |-> "Infinity", value |-> 0]

(***************************************************************************)
(* Environment: sample values of the REACT_APP_* variables.                *)
(***************************************************************************)
\* JSON texts JSON.parse accepts, with the object each parses to. An object
\* is modelled by the set of its keys whose value is truthy.
JsonObjects == [s \in {"{}", "{\"showAdvanced\":true}", "{\"showAdvanced\":false}"} |->
                  IF s = "{\"showAdvanced\":true}" THEN {"showAdvanced"} ELSE {}]

FlagSamples == {Undefined, "", "{}", "{\"showAdvanced\":true}",
                "{\"showAdvanced\":false}", "{showAdvanced", "yes"}

\* strings `new URL(value)` accepts (absolute URLs); every other sample throws
AbsoluteUrls == {"https://builder.example/app", "http://localhost:3001",
                 "ws://localhost:3001/status"}

UrlSamples == AbsoluteUrls \cup {Undefined, "", "/relative/path", "not a url"}

ExperimentSamples == {Undefined, "", "true", "TRUE", "True", "false", "1"}

\* String.prototype.toLowerCase on the sample values
toLowerCase(s) == IF s \in {"TRUE", "True"} THEN "true" ELSE s

parseJsonEnv(envValue, fallback) ==
  IF ~Truthy(envValue) THEN fallback
  ELSE IF envValue \in DOMAIN JsonObjects THEN JsonObjects[envValue]
  ELSE fallback

\* mutant: no `new URL` check, every non-empty value is returned
safeUrl_NoValidation(value, fallback) ==
  IF ~Truthy(value) THEN fallback ELSE value

safeUrl(value, fallback) ==
  IF ~Truthy(value) THEN fallback
  ELSE IF value \in AbsoluteUrls THEN value
  ELSE fallback

\* mutant: the fallback passed to parseJsonEnv has the advanced flag on
computeFeatureFlags_AdvancedDefault(e) ==
  parseJsonEnv(e.REACT_APP_FEATURE_FLAGS, {"showAdvanced"})

computeFeatureFlags(e) == parseJsonEnv(e.REACT_APP_FEATURE_FLAGS, {})

computeExperimentsEnabled(e) ==
  toLowerCase(IF Truthy(e.REACT_APP_EXPERIMENTS_ENABLED)
              THEN e.REACT_APP_EXPERIMENTS_ENABLED ELSE "") = "true"

Env(flags, experiments, backend, api, ws, frontend) ==
  [REACT_APP_FEATURE_FLAGS |-> flags,
   REACT_APP_EXPERIMENTS_ENABLED |-> experiments,
   REACT_APP_BACKEND_URL |-> backend,
   REACT_APP_API_BASE |-> api,
   REACT_APP_WS_URL |-> ws,
   REACT_APP_FRONTEND_URL |-> frontend]

(***************************************************************************)
(* The step list (lines 46-344). A step is its id, the headings of its     *)
(* sections and its links; titles, bodies and tips are display text.       *)
(***************************************************************************)
Link(label, href) == [label |-> label, href |-> href]

\* [..].filter(Boolean) on a list whose absent entries are null
FilterLinks(ls) == SelectSeq(ls, LAMBDA l : l.href # "")

\* mutant: the last step was pasted from the one before it and kept its id
Step_PastedId(id, sections, links) ==
  [id |-> IF id = "verify" THEN "flash" ELSE id,
   sections |-> sections, links |-> links]

Step(id, sections, links) == [id |-> id, sections |-> sections, links |-> links]

\* mutant: the advanced section needs the flag and the experiments switch
AdvancedOn_Both(flags, experiments) == "showAdvanced" \in flags /\ experiments

\* featureFlags.showAdvanced || experimentsEnabled (line 205)
AdvancedOn(flags, experiments) == "showAdvanced" \in flags \/ experiments

BuildSteps(flags, experiments, e) ==
  LET backendUrl == safeUrl(e.REACT_APP_BACKEND_URL, "")
      apiBase == safeUrl(e.REACT_APP_API_BASE, "")
      wsUrl == safeUrl(e.REACT_APP_WS_URL, "")
      frontendUrl == safeUrl(e.REACT_APP_FRONTEND_URL, "")
  IN << Step("overview",
             <<"Goal", "Recommended prerequisites">>,
             FilterLinks(<<Link("Frontend URL", frontendUrl),
                           Link("Backend URL", backendUrl)>>)),
        Step("setup",
             <<"Install base tools", "Directory layout">>,
             IF apiBase # "" THEN <<Link("API Base", apiBase)>> ELSE << >>),
        Step("sources",
             <<"Clone the image builder repo", "Sync dependencies">>,
             << >>),
        Step("configure",
             <<"Choose target: Raspberry Pi 4">>
               \o (IF AdvancedOn(flags, experiments)
                   THEN <<"Advanced options (optional)">> ELSE << >>),
             << >>),
        Step("build",
             <<"Run the build command", "Expected output">>,
             << >>),
        Step("flash",
             <<"Flash the image", "Boot checklist">>,
             << >>),
        Step("verify",
             <<"Validate at runtime">>
               \o (IF wsUrl # "" THEN <<"Optional: Live status endpoint">> ELSE << >>),
             << >>) >>

StepIds(ss) == {ss[i].id : i \in 1..Len(ss)}

(***************************************************************************)
(* Values derived on every render (lines 346-359).                         *)
(***************************************************************************)
\* Array.prototype.findIndex((s) => s.id === id): 0-based, -1 when absent
findIndex(ss, id) ==
  IF \E i \in 1..Len(ss) : ss[i].id = id
  THEN (CHOOSE i \in 1..Len(ss) :
          ss[i].id = id /\ \A j \in 1..(i - 1) : ss[j].id # id) - 1
  ELSE -1

\* mutant: the Math.max(0, ...) around findIndex is missing
activeIndex_NoClamp(ss, id) == findIndex(ss, id)

activeIndex(ss, id) == Max(0, findIndex(ss, id))

\* steps[i] with a 0-based index
InRange(ss, i) == 0 <= i /\ i < Len(ss)
At(ss, i) == ss[i + 1]

\* steps[activeIndex] || steps[0]; only rendered with a non-empty list
activeStep(ss, id) ==
  IF InRange(ss, activeIndex(ss, id)) THEN At(ss, activeIndex(ss, id)) ELSE At(ss, 0)

\* mutant: Math.floor instead of Math.round
RoundPct_Floor(size, length) == (100 * size) \div length

\* mutant: the factor 100 is left out, Math.round(size / length)
RoundPct_NoScale(size, length) == (2 * size + length) \div (2 * length)

\* Math.round(x) for x = 100 * size / length >= 0: floor(x + 1/2). For the
\* counts used here the double result rounds as the exact quotient does:
\* the only ties (length 8, odd size) are exact in binary.
RoundPct(size, length) == (200 * size + length) \div (2 * length)

\* Math.round((completed.size / steps.length) * 100) in IEEE arithmetic:
\* 0 / 0 is NaN and n / 0 is Infinity, and Math.round keeps both
progressPct(size, length) ==
  IF length = 0
  THEN (IF size = 0 THEN NaN ELSE Infinity)
  ELSE Num(RoundPct(size, length))

(***************************************************************************)
(* The effect of lines 352-357 and the handlers of lines 361-381 and 426,  *)
(* each as the value it leaves in the state it writes.                     *)
(***************************************************************************)
\* mutant: the effect is missing, a stale id stays stored
Reconcile_NoFallback(ss, id) == id

\* mutant: the effect falls back to the last step of the list
Reconcile_LastFallback(ss, id) ==
  IF id \in StepIds(ss) THEN id
  ELSE IF Len(ss) > 0 THEN ss[Len(ss)].id
  ELSE "overview"

\* the stored id after the effect has run on (steps, activeStepId)
Reconcile(ss, id) ==
  IF id \in StepIds(ss) THEN id
  ELSE IF Len(ss) > 0 /\ Truthy(ss[1].id) THEN ss[1].id
  ELSE "overview"

\* mutant: the click handler stores the id of the step already shown
selectStep_Stale(ss, id, target) == activeStep(ss, id).id

\* onClick={() => setActiveStepId(step.id)}
selectStep(ss, id, target) == target

\* mutant: Next clamps one step short of the last
goNext_Short(ss, id) ==
  LET n == Min(Len(ss) - 2, activeIndex(ss, id) + 1)
  IN IF InRange(ss, n) THEN At(ss, n).id ELSE id

\* mutant: Next wraps from the last step to the first
goNext_Wrap(ss, id) ==
  IF Len(ss) = 0 THEN id ELSE At(ss, (activeIndex(ss, id) + 1) % Len(ss)).id

\* mutant: Next advances by two
goNext_Skip(ss, id) ==
  LET n == Min(Len(ss) - 1, activeIndex(ss, id) + 2)
  IN IF InRange(ss, n) THEN At(ss, n).id ELSE id

goNext(ss, id) ==
  LET n == Min(Len(ss) - 1, activeIndex(ss, id) + 1)
  IN IF InRange(ss, n) THEN At(ss, n).id ELSE id

\* mutant: Back wraps from the first step to the last
goBack_Wrap(ss, id) ==
  IF Len(ss) = 0 THEN id
  ELSE At(ss, (activeIndex(ss, id) - 1 + Len(ss)) % Len(ss)).id

goBack(ss, id) ==
  LET p == Max(0, activeIndex(ss, id) - 1)
  IN IF InRange(ss, p) THEN At(ss, p).id ELSE id

\* mutant: the updater keys the set by a heading of the step, not by its id
toggleComplete_ByHeading(ss, id, prev) ==
  LET a == activeStep(ss, id).sections[1]
  IN IF a \in prev THEN prev \ {a} ELSE prev \cup {a}

\* mutant: the updater only ever adds
toggleComplete_AddOnly(ss, id, prev) == prev \cup {activeStep(ss, id).id}

\* mutant: the updater starts from new Set() instead of new Set(prev)
toggleComplete_Fresh(ss, id, prev) ==
  LET a == activeStep(ss, id).id
  IN IF a \in prev THEN {} ELSE {a}

\* the updater passed to setCompleted, applied to prev
toggleComplete(ss, id, prev) ==
  LET a == activeStep(ss, id).id
  IN IF a \in prev THEN prev \ {a} ELSE prev \cup {a}

(***************************************************************************)
(* State machine. lastEvent, prevOp and before log the last event, the     *)
(* kind of the event before it and the state the last event started from.  *)
(***************************************************************************)
\* identifiers that are ids of no step
ForeignIdTable == <<"Overview", "", "advanced", "step-8">>
ForeignIds == {ForeignIdTable[i] : i \in 1..NumForeignIds}

NoArg == "<none>"
Event(op, arg) == [op |-> op, arg |-> arg]
Snapshot == [activeStepId |-> activeStepId, completed |-> completed]

\* a computeProgress application: its two counts, and its result once computed
Probe(size, length, done, out) ==
  [size |-> size, length |-> length, done |-> done, out |-> out]
NoProbe == Probe(0, 0, FALSE, Num(0))

\* environments the wizard is run in
MainEnvs ==
  {Env(Undefined, Undefined, Undefined, Undefined, Undefined, Undefined),
   Env("{\"showAdvanced\":true}", "TRUE", "http://localhost:3001",
       "not a url", "ws://localhost:3001/status", "https://builder.example/app")}

\* mutant: useState starts from the second step's id
Mount_WrongDefault(e) ==
  /\ env = e
  /\ featureFlags = computeFeatureFlags(e)
  /\ experimentsEnabled = computeExperimentsEnabled(e)
  /\ steps = BuildSteps(computeFeatureFlags(e), computeExperimentsEnabled(e), e)
  /\ activeStepId = Reconcile(steps, "setup")
  /\ completed = {}
  /\ lastEvent = Event("mount", NoArg)
  /\ prevOp = "none"
  /\ before = [activeStepId |-> "setup", completed |-> {}]

\* first render: useState("overview"), useState(() => new Set()), the memos,
\* then the effect
Mount(e) ==
  /\ env = e
  /\ featureFlags = computeFeatureFlags(e)
  /\ experimentsEnabled = computeExperimentsEnabled(e)
  /\ steps = BuildSteps(computeFeatureFlags(e), computeExperimentsEnabled(e), e)
  /\ activeStepId = Reconcile(steps, "overview")
  /\ completed = {}
  /\ lastEvent = Event("mount", NoArg)
  /\ prevOp = "none"
  /\ before = [activeStepId |-> "overview", completed |-> {}]

Init == (\E e \in MainEnvs : Mount(e)) /\ probe = NoProbe

Record(op, arg) ==
  /\ lastEvent' = Event(op, arg)
  /\ prevOp' = lastEvent.op
  /\ before' = Snapshot

\* a click on the sidebar button of a step, or a selection carrying an id
\* that names no step
SelectStep(target) ==
  /\ activeStepId' = Reconcile(steps, selectStep(steps, activeStepId, target))
  /\ Record("selectStep", target)
  /\ UNCHANGED <<env, featureFlags, experimentsEnabled, steps, completed, probe>>

GoNext ==
  /\ activeStepId' = Reconcile(steps, goNext(steps, activeStepId))
  /\ Record("goNext", NoArg)
  /\ UNCHANGED <<env, featureFlags, experimentsEnabled, steps, completed, probe>>

GoBack ==
  /\ activeStepId' = Reconcile(steps, goBack(steps, activeStepId))
  /\ Record("goBack", NoArg)
  /\ UNCHANGED <<env, featureFlags, experimentsEnabled, steps, completed, probe>>

\* mutant: marking a step also advances to the next step
ToggleComplete_Advances ==
  /\ completed' = toggleComplete(steps, activeStepId, completed)
  /\ activeStepId' = Reconcile(steps, goNext(steps, activeStepId))
  /\ Record("toggleComplete", NoArg)
  /\ UNCHANGED <<env, featureFlags, experimentsEnabled, steps, probe>>

ToggleComplete ==
  /\ completed' = toggleComplete(steps, activeStepId, completed)
  /\ activeStepId' = Reconcile(steps, activeStepId)
  /\ Record("toggleComplete", NoArg)
  /\ UNCHANGED <<env, featureFlags, experimentsEnabled, steps, probe>>

\* React recomputes the memoized step list (useMemo is a cache React may
\* drop): a new list instance from the same memoized flags and environment,
\* after which the effect, which depends on the list, runs again
Rebuild ==
  /\ steps' = BuildSteps(featureFlags, experimentsEnabled, env)
  /\ activeStepId' = Reconcile(steps', activeStepId)
  /\ Record("rebuild", NoArg)
  /\ UNCHANGED <<env, featureFlags, experimentsEnabled, completed, probe>>

Next ==
  \/ \E target \in StepIds(steps) \cup ForeignIds : SelectStep(target)
  \/ GoNext
  \/ GoBack
  \/ ToggleComplete
  \/ Rebuild

Spec == Init /\ [][Next]_vars

(***************************************************************************)
(* computeProgress as a function of the completed count and the list       *)
(* length, applied to every pair of counts up to MaxProbe.                 *)
(***************************************************************************)
ProgressInit ==
  /\ Mount(Env(Undefined, Undefined, Undefined, Undefined, Undefined, Undefined))
  /\ \E size \in 0..MaxProbe, length \in 0..MaxProbe :
       probe = Probe(size, length, FALSE, Num(0))

ComputeProgress ==
  /\ ~probe.done
  /\ probe' = Probe(probe.size, probe.length, TRUE,
                    progressPct(probe.size, probe.length))
  /\ UNCHANGED <<env, featureFlags, experimentsEnabled, steps, activeStepId,
                 completed, lastEvent, prevOp, before>>

ProgressNext == ComputeProgress

ProgressSpec == ProgressInit /\ [][ProgressNext]_vars

(***************************************************************************)
(* The effect of lines 352-357 as a function of the list and the stored    *)
(* id, applied to every non-empty sub-list of the built-in steps and every *)
(* stored id. (The render throws on an empty list, line 383, before any    *)
(* effect runs.)                                                           *)
(***************************************************************************)
DefaultEnv == Env(Undefined, Undefined, Undefined, Undefined, Undefined, Undefined)
DefaultSteps == BuildSteps({}, FALSE, DefaultEnv)

\* the steps of ss whose id is in keep, in list order
SubList(ss, keep) == SelectSeq(ss, LAMBDA st : st.id \in keep)

ReconcileInit ==
  /\ env = DefaultEnv
  /\ featureFlags = computeFeatureFlags(DefaultEnv)
  /\ experimentsEnabled = computeExperimentsEnabled(DefaultEnv)
  /\ \E keep \in (SUBSET StepIds(DefaultSteps)) \ {{}} :
       steps = SubList(DefaultSteps, keep)
  /\ activeStepId \in StepIds(DefaultSteps) \cup ForeignIds
  /\ completed = {}
  /\ lastEvent = Event("listChanged", NoArg)
  /\ prevOp = "none"
  /\ before = [activeStepId |-> activeStepId, completed |-> {}]
  /\ probe = NoProbe

RunEffect ==
  /\ lastEvent.op = "listChanged"
  /\ activeStepId' = Reconcile(steps, activeStepId)
  /\ Record("reconcile", NoArg)
  /\ UNCHANGED <<env, featureFlags, experimentsEnabled, steps, completed, probe>>

ReconcileNext == RunEffect

ReconcileSpec == ReconcileInit /\ [][ReconcileNext]_vars

(***************************************************************************)
(* The wizard mounted in every environment made of the sample values, and  *)
(* its step list recomputed from the memoized flags.                       *)
(***************************************************************************)
ConfigInit ==
  /\ \E f \in FlagSamples, x \in ExperimentSamples,
        b \in UrlSamples, a \in UrlSamples, w \in UrlSamples, u \in UrlSamples :
       Mount(Env(f, x, b, a, w, u))
  /\ probe = NoProbe

ConfigNext == Rebuild

ConfigSpec == ConfigInit /\ [][ConfigNext]_vars

(***************************************************************************)
(* A render whose stored id may name no step of its list (the render       *)
(* between a change of the list or of the stored id and the effect), and   *)
(* the handlers of that render applied to it: every non-empty sub-list of  *)
(* the built-in steps, every stored id, every completion set over the      *)
(* list.                                                                   *)
(***************************************************************************)
StaleInit ==
  /\ env = DefaultEnv
  /\ featureFlags = computeFeatureFlags(DefaultEnv)
  /\ experimentsEnabled = computeExperimentsEnabled(DefaultEnv)
  /\ \E keep \in (SUBSET StepIds(DefaultSteps)) \ {{}} :
       /\ steps = SubList(DefaultSteps, keep)
       /\ completed \in SUBSET keep
  /\ activeStepId \in StepIds(DefaultSteps) \cup ForeignIds
  /\ lastEvent = Event("render", NoArg)
  /\ prevOp = "none"
  /\ before = [activeStepId |-> activeStepId, completed |-> completed]
  /\ probe = NoProbe

\* the first event handled after that render
StaleNext ==
  \/ (lastEvent.op = "render" /\ GoNext)
  \/ (lastEvent.op = "render" /\ GoBack)
  \/ (lastEvent.op = "render" /\ ToggleComplete)

StaleSpec == StaleInit /\ [][StaleNext]_vars

(***************************************************************************)
(* Properties.                                                             *)
(***************************************************************************)
FirstId == At(steps, 0).id
LastId == At(steps, Len(steps) - 1).id
IndexBefore == findIndex(steps, before.activeStepId)
IndexNow == findIndex(steps, activeStepId)

\* the "N% complete" figure of the current render
progressNow == progressPct(Cardinality(completed), Len(steps))

\* C1: in every reachable state, after any sequence of selections, Next,
\* Back, completion toggles and rebuilds of the step list, the stored active
\* step id is the id of a step of the current list.
C1_ActiveStepInList == activeStepId \in StepIds(steps)

\* reached: the list was rebuilt while a step other than the first was
\* active, and that step is still the active one
C1_Witness ==
  /\ lastEvent.op = "rebuild"
  /\ before.activeStepId = "flash"
  /\ activeStepId = "flash"
  /\ activeStepId \in StepIds(steps)

C3_SelectMakesStepActive ==
  (lastEvent.op = "selectStep" /\ lastEvent.arg \in StepIds(steps))
    => /\ activeStepId = lastEvent.arg
       /\ activeStep(steps, activeStepId).id = lastEvent.arg

\* reached: "setup" was selected while another step was active
C3_Witness ==
  /\ lastEvent.op = "selectStep"
  /\ lastEvent.arg = "setup"
  /\ before.activeStepId = "verify"
  /\ activeStepId = "setup"

\* C4: Next moves the active step from index i to index i + 1 when i is not
\* the last index, and leaves it at the last index otherwise (no wrap to the
\* first step), so Next repeated at the last step stays there.
C4_GoNextAdvancesOrClamps ==
  lastEvent.op = "goNext"
    => /\ IndexBefore >= 0
       /\ IndexNow = (IF IndexBefore < Len(steps) - 1
                      THEN IndexBefore + 1 ELSE IndexBefore)
       /\ (before.activeStepId = LastId => activeStepId = LastId)

\* reached: Next pressed twice in a row with the last step active
C4_Witness ==
  /\ prevOp = "goNext"
  /\ lastEvent.op = "goNext"
  /\ before.activeStepId = LastId
  /\ activeStepId = LastId

\* C5: Back moves the active step from index i to index i - 1 when i is not
\* 0, and leaves it at index 0 otherwise (no wrap to the last step), so Back
\* repeated at the first step stays there.
C5_GoBackRetreatsOrClamps ==
  lastEvent.op = "goBack"
    => /\ IndexBefore >= 0
       /\ IndexNow = (IF IndexBefore > 0 THEN IndexBefore - 1 ELSE IndexBefore)
       /\ (before.activeStepId = FirstId => activeStepId = FirstId)

\* reached: Back pressed twice in a row with the first step active
C5_Witness ==
  /\ prevOp = "goBack"
  /\ lastEvent.op = "goBack"
  /\ before.activeStepId = FirstId
  /\ activeStepId = FirstId

\* C6: from an active step that is neither the first nor the last, Next
\* followed immediately by Back returns to that step. (In the unprimed state
\* the last event is the Next and `before` is the state it started from.)
C6_NextThenBackReturns ==
  [][(/\ lastEvent.op = "goNext"
      /\ lastEvent'.op = "goBack"
      /\ before.activeStepId \in StepIds(steps) \ {FirstId, LastId})
     => activeStepId' = before.activeStepId]_vars

\* reached: Next from "sources" (to "configure"), then Back, ends on "sources"
C6_Witness ==
  /\ prevOp = "goNext"
  /\ lastEvent.op = "goBack"
  /\ before.activeStepId = "configure"
  /\ activeStepId = "sources"

\* C7: two completion toggles in succession, with nothing between them,
\* leave the completion set as it was before the first. (In the unprimed
\* state the last event is the first toggle and `before` is the state it
\* started from.)
C7_DoubleToggleRestores ==
  [][(lastEvent.op = "toggleComplete" /\ lastEvent'.op = "toggleComplete")
     => completed' = before.completed]_vars

\* reached: two toggles in a row on "setup" with other steps complete, the
\* second one removing what the first added
C7_Witness ==
  /\ prevOp = "toggleComplete"
  /\ lastEvent.op = "toggleComplete"
  /\ activeStepId = "setup"
  /\ before.completed = {"overview", "setup", "build"}
  /\ completed = {"overview", "build"}

\* C8: a completion toggle acts on the active step only: its id leaves the
\* completion set if it was in it and enters it otherwise, and the
\* membership of every other step id is unchanged.
C8_ToggleActsOnActiveStepOnly ==
  lastEvent.op = "toggleComplete"
    => LET a == activeStep(steps, before.activeStepId).id
       IN /\ a = before.activeStepId
          /\ (a \in completed) = (a \notin before.completed)
          /\ \A x \in (StepIds(steps) \cup completed \cup before.completed) \ {a} :
               (x \in completed) = (x \in before.completed)

\* reached: "configure" was marked complete while two other steps were
C8_Witness ==
  /\ lastEvent.op = "toggleComplete"
  /\ before.activeStepId = "configure"
  /\ before.completed = {"overview", "verify"}
  /\ completed = {"overview", "configure", "verify"}

\* C9: the progress figure is 0 whenever the completion set is empty and 100
\* whenever every step id of the list is in the completion set.
C9_ProgressEndpoints ==
  /\ completed = {} => progressNow = Num(0)
  /\ StepIds(steps) \subseteq completed => progressNow = Num(100)

\* reached: the last open step was marked complete, progress shows 100
C9_Witness ==
  /\ lastEvent.op = "toggleComplete"
  /\ StepIds(steps) \subseteq completed
  /\ progressNow = Num(100)

C11_ReconcileFallsBackOrKeeps ==
  lastEvent.op = "reconcile"
    => activeStepId = (IF before.activeStepId \in StepIds(steps)
                       THEN before.activeStepId ELSE FirstId)

\* reached: "configure" was stored, the new list is (build, flash, verify),
\* and the effect stored "build"
C11_Witness ==
  /\ lastEvent.op = "reconcile"
  /\ before.activeStepId = "configure"
  /\ StepIds(steps) = {"build", "flash", "verify"}
  /\ activeStepId = "build"

\* the step of the current list with the given id, and its section headings
StepOf(id) == At(steps, findIndex(steps, id))
Headings(id) == {StepOf(id).sections[i] : i \in 1..Len(StepOf(id).sections)}
\* the positions of the links with the given label in a step's link list
LinksLabelled(id, label) ==
  {i \in 1..Len(StepOf(id).links) : StepOf(id).links[i].label = label}
\* the environment with the feature-flag variable not set
EnvWithoutFlags == [env EXCEPT !.REACT_APP_FEATURE_FLAGS = Undefined]

\* C12: in the initial state with an empty feature-flag structure and
\* experiments disabled, the active step id is "overview", which is the id
\* of the first step of the list, the completion set is empty and progress
\* is 0.
C12_InitialState ==
  (lastEvent.op = "mount" /\ featureFlags = {} /\ ~experimentsEnabled)
    => /\ activeStepId = "overview"
       /\ FirstId = "overview"
       /\ activeStep(steps, activeStepId).id = "overview"
       /\ completed = {}
       /\ progressNow = Num(0)

\* reached: the wizard mounted with no REACT_APP_* variable set
C12_Witness ==
  /\ lastEvent.op = "mount"
  /\ env = DefaultEnv
  /\ featureFlags = {}
  /\ ~experimentsEnabled
  /\ activeStepId = "overview"

\* C14: for each of the three values that configure a resource link
\* (REACT_APP_FRONTEND_URL and REACT_APP_BACKEND_URL in "overview",
\* REACT_APP_API_BASE in "setup"), a value that is missing or fails the
\* absolute-URL check produces no link entry in that step, and a value that
\* passes produces exactly one link, with that value as href; no step has
\* any other link.
C14_LinkPerValidUrl ==
  /\ \A c \in {<<"overview", "Frontend URL", env.REACT_APP_FRONTEND_URL>>,
               <<"overview", "Backend URL", env.REACT_APP_BACKEND_URL>>,
               <<"setup", "API Base", env.REACT_APP_API_BASE>>} :
       IF c[3] \in AbsoluteUrls
       THEN /\ Cardinality(LinksLabelled(c[1], c[2])) = 1
            /\ \A i \in LinksLabelled(c[1], c[2]) : StepOf(c[1]).links[i].href = c[3]
       ELSE LinksLabelled(c[1], c[2]) = {}
  /\ \A i \in 1..Len(steps) : \A j \in 1..Len(steps[i].links) :
       <<steps[i].id, steps[i].links[j].label>> \in
         {<<"overview", "Frontend URL">>, <<"overview", "Backend URL">>,
          <<"setup", "API Base">>}

\* reached: an invalid frontend URL and a valid backend URL leave "overview"
\* with the backend link alone, and a relative API base leaves "setup" with
\* no link
C14_Witness ==
  /\ env.REACT_APP_FRONTEND_URL = "not a url"
  /\ env.REACT_APP_BACKEND_URL = "http://localhost:3001"
  /\ env.REACT_APP_API_BASE = "/relative/path"
  /\ StepOf("overview").links = <<Link("Backend URL", "http://localhost:3001")>>
  /\ StepOf("setup").links = << >>

\* C15: when the feature-flag value is absent or is not valid JSON, the
\* feature-flag structure is the empty fallback and the step list is the one
\* built with the feature-flag variable not set.
C15_MalformedFlagsFallBack ==
  (~Truthy(env.REACT_APP_FEATURE_FLAGS)
     \/ env.REACT_APP_FEATURE_FLAGS \notin DOMAIN JsonObjects)
    => /\ featureFlags = {}
       /\ steps = BuildSteps({}, computeExperimentsEnabled(EnvWithoutFlags),
                             EnvWithoutFlags)

\* reached: a truncated JSON text naming showAdvanced, experiments off, and
\* "configure" built without the advanced section
C15_Witness ==
  /\ env.REACT_APP_FEATURE_FLAGS = "{showAdvanced"
  /\ env.REACT_APP_EXPERIMENTS_ENABLED = "false"
  /\ featureFlags = {}
  /\ StepOf("configure").sections = <<"Choose target: Raspberry Pi 4">>

\* C16: for every combination of feature flags, experiments switch and URL
\* values the step list has the same seven ids in the same order, all
\* distinct; what varies is confined to sections and links.
C16_StepIdsStable ==
  /\ [i \in 1..Len(steps) |-> steps[i].id] =
       <<"overview", "setup", "sources", "configure", "build", "flash", "verify">>
  /\ Cardinality(StepIds(steps)) = Len(steps)
  /\ \A i \in 1..Len(steps) :
       /\ steps[i].id = DefaultSteps[i].id
       /\ SubSeq(steps[i].sections, 1, Len(DefaultSteps[i].sections)) =
            DefaultSteps[i].sections

\* reached: every optional part is configured and the ids are the same seven
C16_Witness ==
  /\ featureFlags = {"showAdvanced"}
  /\ experimentsEnabled
  /\ Len(StepOf("overview").links) = 2
  /\ Len(StepOf("setup").links) = 1
  /\ Len(StepOf("verify").sections) = 2
  /\ Len(steps) = 7

\* C18: the "Advanced options (optional)" section is part of the "configure"
\* step exactly when the showAdvanced flag is truthy or experiments are
\* enabled; with neither, "configure" has its one base section only.
C18_AdvancedSectionGate ==
  /\ ("Advanced options (optional)" \in Headings("configure"))
       <=> ("showAdvanced" \in featureFlags \/ experimentsEnabled)
  /\ ~("showAdvanced" \in featureFlags \/ experimentsEnabled)
       => StepOf("configure").sections = <<"Choose target: Raspberry Pi 4">>
  /\ \A i \in 1..Len(steps) :
       steps[i].id # "configure"
         => "Advanced options (optional)" \notin
              {steps[i].sections[j] : j \in 1..Len(steps[i].sections)}

\* reached: the flag is off and experiments are on ("TRUE"), and the
\* advanced section is there
C18_Witness ==
  /\ env.REACT_APP_FEATURE_FLAGS = "{\"showAdvanced\":false}"
  /\ env.REACT_APP_EXPERIMENTS_ENABLED = "TRUE"
  /\ "showAdvanced" \notin featureFlags
  /\ experimentsEnabled
  /\ StepOf("configure").sections =
       <<"Choose target: Raspberry Pi 4", "Advanced options (optional)">>

\* C13: progress is the completed count over the step count as a percentage
\* rounded to the nearest integer (halves up): with k of N steps complete it
\* is the integer p with -N <= 2 * (100 * k - p * N) < N. One toggle on the
\* first step of the seven with nothing complete gives 14, and a second
\* toggle gives 0 again.
C13_ProgressIsRoundedShare ==
  LET k == Cardinality(completed)
      n == Len(steps)
      p == progressNow.value
  IN /\ progressNow.kind = "number"
     /\ -n <= 2 * (100 * k - p * n)
     /\ 2 * (100 * k - p * n) < n
     /\ (lastEvent.op = "toggleComplete" /\ before.completed = {}
           /\ before.activeStepId = FirstId)
          => (completed = {FirstId} /\ progressNow = Num(14))
     /\ (prevOp = "toggleComplete" /\ lastEvent.op = "toggleComplete"
           /\ before.completed = {FirstId} /\ before.activeStepId = FirstId)
          => progressNow = Num(0)

\* reached: two of seven steps complete, shown as 29 (28.57 rounded up)
C13_Witness ==
  /\ lastEvent.op = "toggleComplete"
  /\ Cardinality(completed) = 2
  /\ Len(steps) = 7
  /\ progressNow = Num(29)

RECURSIVE NextTimes(_, _)
\* the stored id after n presses of Next starting from id
NextTimes(n, id) ==
  IF n = 0 THEN id ELSE NextTimes(n - 1, Reconcile(steps, goNext(steps, id)))

RECURSIVE BackTimes(_, _)
\* the stored id after n presses of Back starting from id
BackTimes(n, id) ==
  IF n = 0 THEN id ELSE BackTimes(n - 1, Reconcile(steps, goBack(steps, id)))

\* C17: no state is terminal or stuck: in every reachable state, whatever
\* the completion set, every event is enabled and every step s of the list
\* becomes the active step both by one selection of s and by pressing Next
\* (s after the active step) or Back (s before it) as many times as their
\* indices differ.
C17_EveryStepReachable ==
  /\ ENABLED GoNext
  /\ ENABLED GoBack
  /\ ENABLED ToggleComplete
  /\ \A s \in StepIds(steps) :
       /\ ENABLED (SelectStep(s) /\ activeStepId' = s)
       /\ LET j == findIndex(steps, s)
          IN IF j >= IndexNow
             THEN NextTimes(j - IndexNow, activeStepId) = s
             ELSE BackTimes(IndexNow - j, activeStepId) = s

\* reached: with all seven steps complete and the last step active, the
\* first step was selected and is active
C17_Witness ==
  /\ completed = StepIds(steps)
  /\ lastEvent.op = "selectStep"
  /\ before.activeStepId = "verify"
  /\ activeStepId = "overview"

\* C19: selections, Next, Back and rebuilds of the list leave the completion
\* set unchanged, and a completion toggle leaves the active step id
\* unchanged.
C19_NavigationAndCompletionAreSeparate ==
  /\ lastEvent.op \in {"selectStep", "goNext", "goBack", "rebuild"}
       => completed = before.completed
  /\ lastEvent.op = "toggleComplete"
       => (activeStepId = before.activeStepId /\ completed # before.completed)

\* reached: "flash" was marked complete and stays the active step
C19_Witness ==
  /\ lastEvent.op = "toggleComplete"
  /\ before.activeStepId = "flash"
  /\ activeStepId = "flash"
  /\ before.completed = {"setup"}
  /\ completed = {"setup", "flash"}

\* C20: in every reachable state the completion set holds only ids of steps
\* of the list, so the completed count is at most the step count and the
\* progress figure is an integer from 0 to 100.
C20_CompletedWithinList ==
  /\ completed \subseteq StepIds(steps)
  /\ Cardinality(completed) <= Len(steps)
  /\ progressNow.kind = "number"
  /\ progressNow.value \in 0..100

\* reached: six of seven steps complete, shown as 86
C20_Witness ==
  /\ Cardinality(completed) = 6
  /\ completed \subseteq StepIds(steps)
  /\ progressNow = Num(86)

\* C21: the derived active index is always within 0..N-1 and the displayed
\* step is always a step of the list; when the stored id names no step the
\* index is 0 and the first step is displayed, and Next, Back and the
\* completion toggle then act as on the first step: Next stores the second
\* step's id (the first's when the list has one step), Back stores the
\* first step's id, and the toggle flips the first step's id in the
\* completion set and nothing else.
C21_StaleIdActsAsFirstStep ==
  LET first == steps[1].id
      stale == before.activeStepId \notin StepIds(steps)
  IN /\ activeIndex(steps, activeStepId) \in 0..(Len(steps) - 1)
     /\ \E i \in 1..Len(steps) : activeStep(steps, activeStepId) = steps[i]
     /\ activeStepId \notin StepIds(steps)
          => /\ activeIndex(steps, activeStepId) = 0
             /\ activeStep(steps, activeStepId) = steps[1]
     /\ (stale /\ lastEvent.op = "goNext")
          => activeStepId = (IF Len(steps) >= 2 THEN steps[2].id ELSE first)
     /\ (stale /\ lastEvent.op = "goBack") => activeStepId = first
     /\ (stale /\ lastEvent.op = "toggleComplete")
          => /\ activeStepId = first
             /\ completed = (IF first \in before.completed
                             THEN before.completed \ {first}
                             ELSE before.completed \cup {first})

\* reached: Next pressed on a render of the seven steps whose stored id
\* names no step, with two steps complete; "setup" is now active
C21_Witness ==
  /\ lastEvent.op = "goNext"
  /\ before.activeStepId \in ForeignIds
  /\ Len(steps) = 7
  /\ completed = {"overview", "build"}
  /\ activeStepId = "setup"

====
